---- MODULE Spec2Model ----
(***************************************************************************)
(* Cart -> order -> payment state machine of the online-cinema backend.    *)
(*                                                                         *)
(* The relational tables are sets of rows with their primary keys; the     *)
(* cart_items table, whose primary key nothing references, is the bag of   *)
(* its (cart_id, movie_id) rows.  Prices are integer cents.                *)
(*                                                                         *)
(* Spec       requests executed one at a time, each handler one action.    *)
(* SpecSeeded the cancel and webhook handlers on a database seeded with    *)
(*            order and payment rows (as the route tests seed it).         *)
(* SpecConc   handlers split at their awaited database statements and      *)
(*            interleaved (READ COMMITTED transactions).                   *)
(***************************************************************************)
EXTENDS Integers, Sequences, FiniteSets, Bags, TLC

\* ------------------------------------------------------------------ bounds
Users == {1, 2}
Movies == {1, 2}
ExternalIds == {"pi_1", "pi_2"}
MaxOrders == 2
MaxOrdersDeep == 3
MaxPayments == 2
MaxSeedPayments == 3
MaxPaymentsConc == 1
Prices == {300, 900}
MaxPaymentsPrice == 1
MaxPaymentsCheckout == 1
MaxOrdersUsers == 2
MaxPaymentsUsers == 1
Procs == {1, 2}

\* ------------------------------------------------------------------ enums
Pending == "Pending"
Paid == "Paid"
OrderCanceled == "Canceled"
OrderStatusEnum == {Pending, Paid, OrderCanceled}

Successful == "Successful"
Canceled == "Canceled"
Refunded == "Refunded"
StatusEnum == {Successful, Canceled, Refunded}

\* ------------------------------------------------------------------ state
VARIABLES
    price,          \* movies.price, by movie id
    is_available,   \* movies.is_available, by movie id
    carts,          \* rows [id, user_id]
    cart_items,     \* bag of rows [cart_id, movie_id]
    orders,         \* rows [id, user_id, status, total_amount]
    order_items,    \* rows [id, order_id, movie_id, price_at_order]
    payments,       \* rows [id, user_id, order_id, amount, status, external_payment_id]
    payment_items,  \* rows [id, payment_id, order_item_id, price_at_payment]
    seq,            \* the autoincrement counters of the tables
    last,           \* the last request answered and its response
    req             \* the requests in flight: position and session state

db == <<carts, cart_items, orders, order_items, payments, payment_items, seq>>
catalog == <<price, is_available>>
vars == <<price, is_available, carts, cart_items, orders, order_items, payments,
          payment_items, seq, last, req>>

\* ---------------------------------------------------------------- helpers
Range(s) == {s[i] : i \in DOMAIN s}

RECURSIVE SumPrices(_, _)
SumPrices(s, p) == IF s = <<>> THEN 0 ELSE p[Head(s)] + SumPrices(Tail(s), p)

\* the rows of a set in primary-key order
RECURSIVE ById(_)
ById(rows) ==
    IF rows = {} THEN <<>>
    ELSE LET r == CHOOSE x \in rows : \A y \in rows : x.id <= y.id
         IN <<r>> \o ById(rows \ {r})

\* a request (op, user, arg, ref) and its response: the status code and
\* detail, the notifications sent, the status the named order had before
\* (prev), the id of the row created (res), the unit amounts of the line
\* items sent to the payment gateway (lines) and the movies listed in the
\* notification of create_order (listed)
Response(op, user, arg, code, detail, emails, prev, res) ==
    [op |-> op, user |-> user, arg |-> arg, ref |-> "", code |-> code,
     detail |-> detail, emails |-> emails, prev |-> prev, res |-> res,
     lines |-> <<>>, listed |-> <<>>]

\* ------------------------------------------------- binary floating point
\* The float arithmetic of the handlers (IEEE 754 binary64, round to nearest
\* even) on naturals written in base 2^15, least significant limb first.
Limb == 32768

RECURSIVE Carry(_, _)
Carry(x, c) ==
    IF x = <<>> THEN (IF c = 0 THEN <<>> ELSE <<c>>)
    ELSE <<(Head(x) + c) % Limb>> \o Carry(Tail(x), (Head(x) + c) \div Limb)

\* x * f, for f <= 2^15
MulSmall(x, f) == Carry([i \in DOMAIN x |-> x[i] * f], 0)

\* x \div d and x % d, for d <= 2^15
RECURSIVE DivRem(_, _)
DivRem(x, d) ==
    IF x = <<>> THEN [q |-> <<>>, r |-> 0]
    ELSE LET hi == DivRem(Tail(x), d)
             cur == hi.r * Limb + Head(x)
         IN [q |-> <<cur \div d>> \o hi.q, r |-> cur % d]

RECURSIVE Strip(_)
Strip(x) ==
    IF x # <<>> /\ x[Len(x)] = 0 THEN Strip(SubSeq(x, 1, Len(x) - 1)) ELSE x

Shl(x, k) == MulSmall([i \in 1..(k \div 15) |-> 0] \o x, 2^(k % 15))

\* x \div 2^k, and whether bits were lost
Shr(x, k) ==
    LET n == IF k \div 15 < Len(x) THEN k \div 15 ELSE Len(x)
        d == DivRem(SubSeq(x, n + 1, Len(x)), 2^(k % 15))
    IN [q |-> Strip(d.q),
        lost |-> d.r # 0 \/ \E i \in 1..n : x[i] # 0]

RECURSIVE BitLenOf(_)
BitLenOf(n) == IF n = 0 THEN 0 ELSE 1 + BitLenOf(n \div 2)

BitLen(x) == IF x = <<>> THEN 0 ELSE 15 * (Len(x) - 1) + BitLenOf(x[Len(x)])

Odd(x) == x # <<>> /\ x[1] % 2 = 1

RECURSIVE ToInt(_)
ToInt(x) == IF x = <<>> THEN 0 ELSE Head(x) + Limb * ToInt(Tail(x))

\* x (of more than 53 bits, followed by a nonzero fraction iff sticky)
\* rounded to 53 bits: [m, drop] with value m * 2^drop
RoundTo53(x, sticky) ==
    LET drop == BitLen(x) - 53
        y == Shr(x, drop - 1)
        m == Shr(y.q, 1).q
        up == Odd(y.q) /\ (sticky \/ y.lost \/ Odd(m))
        r == IF up THEN Carry(m, 1) ELSE m
    IN IF BitLen(r) = 54 THEN [m |-> Shr(r, 1).q, drop |-> drop + 1]
       ELSE [m |-> r, drop |-> drop]

\* float(Decimal) of c cents, c > 0: [m, k] with value m * 2^(-k)
FloatOfCents(c) ==
    LET d == DivRem(Shl(Carry(<<>>, c), 60), 100)
        f == RoundTo53(Strip(d.q), d.r # 0)
    IN [m |-> f.m, k |-> 60 - f.drop]

\* x * 100 in binary64
Times100(x) ==
    LET f == RoundTo53(MulSmall(x.m, 100), FALSE)
    IN [m |-> f.m, k |-> x.k - f.drop]

\* int(x): truncation
IntOfFloat(x) == ToInt(Shr(x.m, x.k).q)

\* int(float(item.price_at_order) * 100)
UnitAmount(c) == IF c = 0 THEN 0 ELSE IntOfFloat(Times100(FloatOfCents(c)))

\* ------------------------------------------------------------------- Init
InitialPrice == [m \in Movies |-> IF m = 1 THEN 500 ELSE 700]

EmptyDb ==
    /\ carts = {}
    /\ cart_items = EmptyBag
    /\ orders = {}
    /\ order_items = {}
    /\ payments = {}
    /\ payment_items = {}
    /\ seq = [carts |-> 0, orders |-> 0, order_items |-> 0, payments |-> 0,
              payment_items |-> 0]

\* a handler slot with no request in it
Idle ==
    [pc |-> "idle", user |-> 0, arg |-> 0, ref |-> "", cart |-> <<>>,
     purchased |-> {}, pending |-> {}, row |-> {}, loaded |-> {}, newid |-> 0,
     mails |-> 0, sent |-> <<>>]

NoRequest == [p \in Procs |-> Idle]

Init ==
    /\ price = InitialPrice
    /\ is_available \in [Movies -> BOOLEAN]
    /\ EmptyDb
    /\ last = Response("init", 0, 0, 0, "", 0, "-", 0)
    /\ req = NoRequest

\* ------------------------------------------------------------ Cart Manager
\* a faulty variant: looks for Refunded payments
AlreadyPurchased_WrongStatus(u, m) ==
    \E p \in payments, pi \in payment_items, oi \in order_items :
        /\ p.user_id = u
        /\ p.status = Refunded
        /\ pi.payment_id = p.id
        /\ oi.id = pi.order_item_id
        /\ oi.movie_id = m

AlreadyPurchased(u, m) ==
    \E p \in payments, pi \in payment_items, oi \in order_items :
        /\ p.user_id = u
        /\ p.status = Successful
        /\ pi.payment_id = p.id
        /\ oi.id = pi.order_item_id
        /\ oi.movie_id = m

\* a faulty variant: the cart of the user is never found
CartOf_None(u) == {}

CartOf(u) == {c \in carts : c.user_id = u}

CartItem(cid, m) == [cart_id |-> cid, movie_id |-> m]

\* a faulty variant: the lookup matches on the cart alone
ExistingItem_NoMovieFilter(cid, m) ==
    \E ci \in BagToSet(cart_items) : ci.cart_id = cid /\ ci.movie_id # m

ExistingItem(cid, m) == BagIn(CartItem(cid, m), cart_items)

\* a faulty variant: the table has no unique constraint
ViolatesUnique_None(cid, m) == FALSE

\* UniqueConstraint("cart_id", "movie_id")
ViolatesUnique(cid, m) == BagIn(CartItem(cid, m), cart_items)

AddMovieToCart(u, m) ==
    IF AlreadyPurchased(u, m)
    THEN /\ last' = Response("add", u, m, 400,
                "You have already purchased this movie. Repeat purchases are not allowed.",
                0, "-", 0)
         /\ UNCHANGED <<db, catalog>>
    ELSE LET found == CartOf(u)
             cid == IF found = {} THEN seq.carts + 1
                    ELSE (CHOOSE c \in found : TRUE).id
         IN IF ExistingItem(cid, m)
            THEN /\ last' = Response("add", u, m, 400, "Movie already in cart.",
                                     0, "-", 0)
                 /\ UNCHANGED <<db, catalog>>
            ELSE IF ViolatesUnique(cid, m)
            THEN \* IntegrityError out of db.commit(): the session is discarded
                 /\ last' = Response("add", u, m, 500, "Internal Server Error",
                                     0, "-", 0)
                 /\ UNCHANGED <<db, catalog>>
            ELSE /\ carts' = IF found = {}
                             THEN carts \cup {[id |-> cid, user_id |-> u]}
                             ELSE carts
                 /\ seq' = IF found = {} THEN [seq EXCEPT !.carts = cid] ELSE seq
                 /\ cart_items' = cart_items (+) SetToBag({CartItem(cid, m)})
                 /\ last' = Response("add", u, m, 200,
                                     "Movie added to cart successfully.", 0, "-", 0)
                 /\ UNCHANGED <<orders, order_items, payments, payment_items, catalog>>

\* a faulty variant: every item of the cart is deleted
RemoveMovieFromCart_ClearsCart(u, m) ==
    /\ cart_items' = [ci \in {x \in BagToSet(cart_items) :
                                  \A c \in carts : c.user_id = u => x.cart_id # c.id}
                          |-> CopiesIn(ci, cart_items)]
    /\ last' = Response("remove", u, m, 200,
                        "Movie removed from cart successfully.", 0, "-", 0)
    /\ UNCHANGED <<carts, orders, order_items, payments, payment_items, seq,
                   catalog>>

RemoveMovieFromCart(u, m) ==
    LET found == CartOf(u) IN
    IF found = {}
    THEN /\ last' = Response("remove", u, m, 404, "Cart not found", 0, "-", 0)
         /\ UNCHANGED <<db, catalog>>
    ELSE LET cid == (CHOOSE c \in found : TRUE).id IN
         IF ~ExistingItem(cid, m)
         THEN /\ last' = Response("remove", u, m, 404,
                                  "Movie not found in your cart", 0, "-", 0)
              /\ UNCHANGED <<db, catalog>>
         ELSE /\ cart_items' = cart_items (-) SetToBag({CartItem(cid, m)})
              /\ last' = Response("remove", u, m, 200,
                                  "Movie removed from cart successfully.", 0, "-", 0)
              /\ UNCHANGED <<carts, orders, order_items, payments, payment_items,
                             seq, catalog>>

\* a faulty variant: the rows of every cart
CartItemsOf_AllUsers(u) == cart_items

\* cart.cart_items: the rows of the user's cart
CartItemsOf(u) ==
    LET ids == {c.id : c \in CartOf(u)}
        rows == {ci \in BagToSet(cart_items) : ci.cart_id \in ids}
    IN [ci \in rows |-> CopiesIn(ci, cart_items)]

ClearCart(u) ==
    IF CartItemsOf(u) = EmptyBag
    THEN /\ last' = Response("clear", u, 0, 404, "Your cart is already empty.",
                             0, "-", 0)
         /\ UNCHANGED <<db, catalog>>
    ELSE /\ cart_items' = cart_items (-) CartItemsOf(u)
         /\ last' = Response("clear", u, 0, 200,
                             "Your cart has been cleared successfully.", 0, "-", 0)
         /\ UNCHANGED <<carts, orders, order_items, payments, payment_items, seq,
                        catalog>>

\* ----------------------------------------------------------- Order Builder
\* select(OrderItemModel.movie_id).join(order).join(PaymentModel,
\*     PaymentModel.id == OrderItemModel.order_id).where(user, SUCCESSFUL)
PurchasedMovieIds(u) ==
    {oi.movie_id : oi \in
        {x \in order_items :
            /\ \E o \in orders : o.id = x.order_id
            /\ \E p \in payments :
                 /\ p.id = x.order_id
                 /\ p.user_id = u
                 /\ p.status = Successful}}

\* a faulty variant: filters on the wrong order status
PendingMovieIds_WrongStatus(u) ==
    {oi.movie_id : oi \in
        {x \in order_items :
            \E o \in orders :
                o.id = x.order_id /\ o.user_id = u /\ o.status = Paid}}

PendingMovieIds(u) ==
    {oi.movie_id : oi \in
        {x \in order_items :
            \E o \in orders :
                o.id = x.order_id /\ o.user_id = u /\ o.status = Pending}}

Excluded(m, avail, purchased, pending) ==
    \/ ~avail[m]
    \/ m \in purchased
    \/ m \in pending

\* the movies of the rows of a cart, row by row (the rows come in no
\* specified order: here by movie id)
CartItemRow(m, items) == {ci \in DOMAIN items : ci.movie_id = m}

RECURSIVE MoviesOfRows(_, _)
MoviesOfRows(items, ms) ==
    IF ms = {} THEN <<>>
    ELSE LET m == CHOOSE x \in ms : \A y \in ms : x <= y
             n == IF CartItemRow(m, items) = {} THEN 0
                  ELSE items[CHOOSE ci \in CartItemRow(m, items) : TRUE]
         IN [i \in 1..n |-> m] \o MoviesOfRows(items, ms \ {m})

CartMovies(u) == MoviesOfRows(CartItemsOf(u), Movies)

AvailableCartItems(cart, avail, purchased, pending) ==
    SelectSeq(cart, LAMBDA m : ~Excluded(m, avail, purchased, pending))

\* a faulty variant: only the movies flagged unavailable are listed
UnavailableMovies_FlagOnly(cart, avail, purchased, pending) ==
    SelectSeq(cart, LAMBDA m : ~avail[m])

UnavailableMovies(cart, avail, purchased, pending) ==
    SelectSeq(cart, LAMBDA m : Excluded(m, avail, purchased, pending))

\* a faulty variant: the total is the price of the first item
NewOrder_FirstPrice(oid, u, available, prices) ==
    [id |-> oid, user_id |-> u, status |-> Pending,
     total_amount |-> prices[available[1]]]

NewOrder(oid, u, available, prices) ==
    [id |-> oid, user_id |-> u, status |-> Pending,
     total_amount |-> SumPrices(available, prices)]

\* a faulty variant: the items are priced as the catalog was first priced
NewOrderItems_StalePrice(oid, first, available, prices) ==
    {[id |-> first + i, order_id |-> oid, movie_id |-> available[i],
      price_at_order |-> InitialPrice[available[i]]] : i \in DOMAIN available}

NewOrderItems(oid, first, available, prices) ==
    {[id |-> first + i, order_id |-> oid, movie_id |-> available[i],
      price_at_order |-> prices[available[i]]] : i \in DOMAIN available}

\* a faulty variant: the cart is emptied into the order
CreateOrder_ConsumesCart(u) ==
    /\ cart_items' = [ci \in {x \in BagToSet(cart_items) :
                                  \A c \in carts : c.user_id = u => x.cart_id # c.id}
                          |-> CopiesIn(ci, cart_items)]
    /\ last' = Response("create", u, 0, 200, "", 0, "-", 0)
    /\ UNCHANGED <<carts, orders, order_items, payments, payment_items, seq,
                   catalog>>

CreateOrder(u) ==
    LET cart == CartMovies(u) IN
    IF cart = <<>>
    THEN /\ last' = Response("create", u, 0, 400, "Your cart is empty.", 0, "-", 0)
         /\ UNCHANGED <<db, catalog>>
    ELSE LET purchased == PurchasedMovieIds(u)
             pending == PendingMovieIds(u)
             available == AvailableCartItems(cart, is_available, purchased, pending)
             unavailable == UnavailableMovies(cart, is_available, purchased, pending)
             emails == IF unavailable # <<>> THEN 1 ELSE 0
             oid == seq.orders + 1
         IN IF available = <<>>
            THEN /\ last' = [Response("create", u, 0, 400,
                        "No movies available to create an order.", emails, "-", 0)
                            EXCEPT !.listed = unavailable]
                 /\ UNCHANGED <<db, catalog>>
            ELSE /\ orders' = orders \cup {NewOrder(oid, u, available, price)}
                 /\ order_items' = order_items
                        \cup NewOrderItems(oid, seq.order_items, available, price)
                 /\ seq' = [seq EXCEPT !.orders = oid,
                                       !.order_items = @ + Len(available)]
                 /\ last' = [Response("create", u, 0, 200, "", emails, "-", oid)
                                EXCEPT !.listed = unavailable]
                 /\ UNCHANGED <<carts, cart_items, payments, payment_items, catalog>>

\* --------------------------------------------------------- Order Lifecycle
\* a faulty variant: the owner is not checked
OrderFor_AnyUser(oid, u) == {o \in orders : o.id = oid}

OrderFor(oid, u) == {o \in orders : o.id = oid /\ o.user_id = u}

PaymentsOf(oid) == {p \in payments : p.order_id = oid}

\* a faulty variant: Refunded payments are canceled like the others
RECURSIVE CancelLoop_RefundedToo(_, _)
CancelLoop_RefundedToo(ps, mem) ==
    IF ps = <<>> THEN [raised |-> FALSE, mem |-> mem]
    ELSE LET p == Head(ps) IN
         IF p.status = Successful THEN [raised |-> TRUE, mem |-> mem]
         ELSE CancelLoop_RefundedToo(Tail(ps),
                  (mem \ {p}) \cup {[p EXCEPT !.status = Canceled]})

\* the loop over order.payments on the session's objects: the rows as the
\* session holds them when the loop ends, and whether it raised
RECURSIVE CancelLoop(_, _)
CancelLoop(ps, mem) ==
    IF ps = <<>> THEN [raised |-> FALSE, mem |-> mem]
    ELSE LET p == Head(ps) IN
         IF p.status = Successful THEN [raised |-> TRUE, mem |-> mem]
         ELSE IF p.status # Refunded
              THEN CancelLoop(Tail(ps),
                       (mem \ {p}) \cup {[p EXCEPT !.status = Canceled]})
              ELSE CancelLoop(Tail(ps), mem)

\* a faulty variant: the order keeps its status
SetOrderStatus_Kept(oid, st) == orders

\* UPDATE orders SET status = st WHERE id = oid
SetOrderStatus(oid, st) ==
    {IF o.id = oid THEN [o EXCEPT !.status = st] ELSE o : o \in orders}

\* UPDATE payments SET status = ... WHERE id = ..., for the payments whose
\* status the session changed
SetPaymentStatuses(loaded, mem) ==
    {IF \E m \in mem, l \in loaded :
            m.id = p.id /\ l.id = p.id /\ m.status # l.status
     THEN [p EXCEPT !.status = (CHOOSE m \in mem : m.id = p.id).status]
     ELSE p : p \in payments}

\* a faulty variant: the session's changes are written although the loop raised
CancelPersisted_DespiteRaise(o, loaded, loop) ==
    [orders |-> SetOrderStatus(o.id, OrderCanceled),
     payments |-> SetPaymentStatuses(loaded, loop.mem)]

\* what the request leaves in the database: the session's changes reach it
\* at db.commit() only
CancelPersisted(o, loaded, loop) ==
    IF loop.raised
    THEN [orders |-> orders, payments |-> payments]
    ELSE [orders |-> SetOrderStatus(o.id, OrderCanceled),
          payments |-> SetPaymentStatuses(loaded, loop.mem)]

\* a faulty variant: only Canceled orders are refused
CancelRefusal_PaidAllowed(st) ==
    IF st = OrderCanceled THEN "Order has already been canceled." ELSE ""

\* the detail of the 400 that refuses to cancel an order of status st, ""
\* when the order may be canceled
CancelRefusal(st) ==
    IF st = OrderCanceled THEN "Order has already been canceled."
    ELSE IF st = Paid
    THEN "Order has already been paid and cannot be canceled. Please request a refund instead."
    ELSE ""

CancelOrder(u, oid) ==
    LET found == OrderFor(oid, u) IN
    IF found = {}
    THEN /\ last' = Response("cancel", u, oid, 404, "Order not found.", 0, "-", 0)
         /\ UNCHANGED <<db, catalog>>
    ELSE LET o == CHOOSE x \in found : TRUE IN
         IF CancelRefusal(o.status) # ""
         THEN /\ last' = Response("cancel", u, oid, 400, CancelRefusal(o.status),
                                  0, o.status, 0)
              /\ UNCHANGED <<db, catalog>>
         ELSE LET loop == CancelLoop(ById(PaymentsOf(oid)), PaymentsOf(oid))
                  out == CancelPersisted(o, PaymentsOf(oid), loop)
              IN /\ orders' = out.orders
                 /\ payments' = out.payments
                 /\ last' = IF loop.raised
                            THEN Response("cancel", u, oid, 500,
                                   "Inconsistent state: a successful payment exists for this non-paid order. Please contact support.",
                                   0, o.status, 0)
                            ELSE Response("cancel", u, oid, 200,
                                   "Order canceled successfully.", 0, o.status, 0)
                 /\ UNCHANGED <<carts, cart_items, order_items, payment_items, seq,
                                catalog>>

\* -------------------------------------------------- Payment Reconciliation
\* a faulty variant: the amount is computed from the current catalog prices
RECURSIVE CurrentPriceOf(_)
CurrentPriceOf(items) ==
    IF items = {} THEN 0
    ELSE LET oi == CHOOSE x \in items : TRUE
         IN price[oi.movie_id] + CurrentPriceOf(items \ {oi})

NewPayment_CurrentPrices(pid, o, ext) ==
    [id |-> pid, user_id |-> o.user_id, order_id |-> o.id,
     amount |-> CurrentPriceOf({oi \in order_items : oi.order_id = o.id}),
     status |-> Successful, external_payment_id |-> ext]

\* PaymentModel(user_id, order_id, amount, status, external_payment_id)
NewPayment(pid, o, ext) ==
    [id |-> pid, user_id |-> o.user_id, order_id |-> o.id,
     amount |-> o.total_amount, status |-> Successful,
     external_payment_id |-> ext]

\* a faulty variant: the loop stops after the first OrderItem
NewPaymentItems_FirstOnly(pid, first, items) ==
    {[id |-> first + i, payment_id |-> pid, order_item_id |-> items[i].id,
      price_at_payment |-> items[i].price_at_order] : i \in DOMAIN items \cap {1}}

\* one PaymentItem per selected OrderItem, keyed in the order of the rows
NewPaymentItems(pid, first, items) ==
    {[id |-> first + i, payment_id |-> pid, order_item_id |-> items[i].id,
      price_at_payment |-> items[i].price_at_order] : i \in DOMAIN items}

OrderItemsOf(oid) == {oi \in order_items : oi.order_id = oid}

\* event["type"] == "checkout.session.completed"
CheckoutSessionCompleted(oid, ext) ==
    LET found == {o \in orders : o.id = oid} IN
    IF found = {}
    THEN /\ last' = [Response("completed", 0, oid, 404, "Order not found.", 0,
                              "-", 0) EXCEPT !.ref = ext]
         /\ UNCHANGED <<db, catalog>>
    ELSE LET o == CHOOSE x \in found : TRUE
             pid == seq.payments + 1
             items == ById(OrderItemsOf(oid))
         IN /\ orders' = SetOrderStatus(oid, Paid)
            /\ payments' = payments \cup {NewPayment(pid, o, ext)}
            /\ payment_items' = payment_items
                    \cup NewPaymentItems(pid, seq.payment_items, items)
            /\ seq' = [seq EXCEPT !.payments = pid,
                                  !.payment_items = @ + Len(items)]
            /\ last' = [Response("completed", o.user_id, oid, 200, "success", 1,
                                 o.status, pid) EXCEPT !.ref = ext]
            /\ UNCHANGED <<carts, cart_items, order_items, catalog>>

\* a faulty variant: the failure of the notification undoes the event
NotificationFailed_RolledBack(oid, ext) ==
    /\ last' = [Response("completed", 0, oid, 500, "Internal Server Error", 0,
                         "-", 0) EXCEPT !.ref = ext]
    /\ UNCHANGED <<db, catalog>>

\* checkout.session.completed when send_notification_email raises: the
\* event was committed before
NotificationFailed(oid, ext) ==
    LET found == {o \in orders : o.id = oid}
        o == CHOOSE x \in found : TRUE
        pid == seq.payments + 1
        items == ById(OrderItemsOf(oid))
    IN /\ found # {}
       /\ orders' = SetOrderStatus(oid, Paid)
       /\ payments' = payments \cup {NewPayment(pid, o, ext)}
       /\ payment_items' = payment_items
               \cup NewPaymentItems(pid, seq.payment_items, items)
       /\ seq' = [seq EXCEPT !.payments = pid,
                             !.payment_items = @ + Len(items)]
       /\ last' = [Response("completed", o.user_id, oid, 500,
                            "Internal Server Error", 0, o.status, pid)
                       EXCEPT !.ref = ext]
       /\ UNCHANGED <<carts, cart_items, order_items, catalog>>

\* a faulty variant: the failed charge cancels the order
ChargeFailed_CancelsOrder(oid, uid) ==
    /\ orders' = SetOrderStatus(oid, OrderCanceled)
    /\ last' = Response("charge_failed", uid, oid, 200, "fail", 1, "-", 0)
    /\ UNCHANGED <<carts, cart_items, order_items, payments, payment_items, seq,
                   catalog>>

\* event["type"] == "charge.failed"
ChargeFailed(oid, uid) ==
    LET found == {o \in orders : o.id = oid} IN
    IF found = {}
    THEN \* order is None: order.order_items raises AttributeError
         /\ last' = Response("charge_failed", uid, oid, 500,
                             "Internal Server Error", 0, "-", 0)
         /\ UNCHANGED <<db, catalog>>
    ELSE /\ last' = Response("charge_failed", uid, oid, 200, "fail", 1,
                             (CHOOSE o \in found : TRUE).status, 0)
         /\ UNCHANGED <<db, catalog>>

\* the line_items of stripe.checkout.Session.create: the unit amounts
LineItems(items) == [i \in DOMAIN items |-> UnitAmount(items[i].price_at_order)]

CreateCheckoutSession(u, oid) ==
    LET found == {o \in orders : o.id = oid} IN
    /\ last' =
          IF found = {} \/ (CHOOSE o \in found : TRUE).user_id # u
          THEN Response("checkout", u, oid, 404, "Order not found.", 0, "-", 0)
          ELSE IF (CHOOSE o \in found : TRUE).status # Pending
          THEN Response("checkout", u, oid, 400, "Order already processed.", 0,
                        (CHOOSE o \in found : TRUE).status, 0)
          ELSE [Response("checkout", u, oid, 200, "checkout_url", 0, Pending, 0)
                    EXCEPT !.lines = LineItems(ById(OrderItemsOf(oid)))]
    /\ UNCHANGED <<db, catalog>>

\* ---------------------------------------------------------- specifications
\* the order ids a request may name: the existing ones and one that is not
OrderIds == 1..(seq.orders + 1)

\* requests of the users `users`, one at a time; the tables hold at most
\* maxOrders orders and maxPayments payments
NextOver(users, maxOrders, maxPayments) ==
    /\ UNCHANGED req
    /\
       \/ \E u \in users, m \in Movies : AddMovieToCart(u, m)
       \/ \E u \in users, m \in Movies : RemoveMovieFromCart(u, m)
       \/ \E u \in users : ClearCart(u)
       \/ \E u \in users : CreateOrder(u) /\ seq'.orders <= maxOrders
       \/ \E u \in users, oid \in OrderIds : CancelOrder(u, oid)
       \/ \E oid \in OrderIds, ext \in ExternalIds :
               CheckoutSessionCompleted(oid, ext) /\ seq'.payments <= maxPayments

Next == NextOver({1}, MaxOrders, MaxPayments)

Spec == Init /\ [][Next]_vars

NextDeep == NextOver({1}, MaxOrdersDeep, MaxPayments)

SpecDeep == Init /\ [][NextDeep]_vars
\* a database seeded with two orders (of user 1 and of user 2, one item each)
\* and up to MaxSeedPayments payments, of any status
SeedOrders(s1, s2) ==
    {[id |-> 1, user_id |-> 1, status |-> s1, total_amount |-> InitialPrice[1]],
     [id |-> 2, user_id |-> 2, status |-> s2, total_amount |-> InitialPrice[1]]}

SeedPayments(on, st) ==
    {[id |-> i, user_id |-> on[i], order_id |-> on[i],
      amount |-> InitialPrice[1], status |-> st[i],
      external_payment_id |-> "123"] : i \in DOMAIN on}

InitSeeded ==
    /\ price = InitialPrice
    /\ is_available = [m \in Movies |-> TRUE]
    /\ carts = {}
    /\ cart_items = EmptyBag
    /\ \E s1 \in OrderStatusEnum, s2 \in OrderStatusEnum : orders = SeedOrders(s1, s2)
    /\ order_items = {[id |-> i, order_id |-> i, movie_id |-> 1,
                       price_at_order |-> InitialPrice[1]] : i \in {1, 2}}
    /\ \E n \in 0..MaxSeedPayments :
         \E on \in [1..n -> {1, 2}], st \in [1..n -> StatusEnum] :
            /\ payments = SeedPayments(on, st)
            /\ seq = [carts |-> 0, orders |-> 2, order_items |-> 2,
                      payments |-> n, payment_items |-> 0]
    /\ payment_items = {}
    /\ last = Response("init", 0, 0, 0, "", 0, "-", 0)
    /\ req = NoRequest

NextSeeded ==
    /\ UNCHANGED req
    /\
       \/ \E u \in Users, oid \in OrderIds : CancelOrder(u, oid)
       \/ \E oid \in OrderIds, ext \in ExternalIds :
               CheckoutSessionCompleted(oid, ext) /\ seq'.payments <= MaxSeedPayments

SpecSeeded == InitSeeded /\ [][NextSeeded]_vars

\* ------------------------------------------------- interleaved requests
\* Each handler is split at its awaited database statements.  A statement
\* reads what is committed (READ COMMITTED); what a session flushed becomes
\* visible at its commit; the ids a flush takes from a sequence are taken for
\* good; an UPDATE waits for the row lock of an uncommitted UPDATE.
At(p, pc) == req[p].pc = pc

Goto(p, pc) == [req[p] EXCEPT !.pc = pc]

\* create_order
CreateReadCart(p, u) ==
    /\ At(p, "idle")
    /\ LET cart == CartMovies(u) IN
       IF cart = <<>>
       THEN /\ last' = Response("create", u, 0, 400, "Your cart is empty.", 0, "-", 0)
            /\ UNCHANGED req
       ELSE /\ req' = [req EXCEPT ![p] =
                          [Idle EXCEPT !.pc = "create_purchased", !.user = u,
                                       !.cart = cart]]
            /\ UNCHANGED last
    /\ UNCHANGED <<db, catalog>>

CreateReadPurchased(p) ==
    /\ At(p, "create_purchased")
    /\ req' = [req EXCEPT ![p] = [Goto(p, "create_pending") EXCEPT
                                    !.purchased = PurchasedMovieIds(req[p].user)]]
    /\ UNCHANGED <<db, catalog, last>>

CreateReadPending(p) ==
    /\ At(p, "create_pending")
    /\ LET r == req[p]
           pending == PendingMovieIds(r.user)
           available == AvailableCartItems(r.cart, is_available, r.purchased, pending)
           unavailable == UnavailableMovies(r.cart, is_available, r.purchased, pending)
           emails == IF unavailable # <<>> THEN 1 ELSE 0
       IN IF available = <<>>
          THEN /\ last' = [Response("create", r.user, 0, 400,
                        "No movies available to create an order.", emails, "-", 0)
                              EXCEPT !.listed = unavailable]
               /\ req' = [req EXCEPT ![p] = Idle]
          ELSE /\ req' = [req EXCEPT ![p] = [Goto(p, "create_flush") EXCEPT
                                               !.pending = pending,
                                               !.mails = emails,
                                               !.sent = unavailable]]
               /\ UNCHANGED last
    /\ UNCHANGED <<db, catalog>>

\* db.add(order); await db.flush(): the order id is taken
CreateFlush(p) ==
    /\ At(p, "create_flush")
    /\ seq.orders < MaxOrders
    /\ seq' = [seq EXCEPT !.orders = @ + 1]
    /\ req' = [req EXCEPT ![p] = [Goto(p, "create_commit") EXCEPT
                                    !.newid = seq.orders + 1]]
    /\ UNCHANGED <<carts, cart_items, orders, order_items, payments, payment_items,
                   catalog, last>>

CreateCommit(p) ==
    /\ At(p, "create_commit")
    /\ LET r == req[p]
           available == AvailableCartItems(r.cart, is_available, r.purchased, r.pending)
       IN /\ orders' = orders \cup {NewOrder(r.newid, r.user, available, price)}
          /\ order_items' = order_items
                \cup NewOrderItems(r.newid, seq.order_items, available, price)
          /\ seq' = [seq EXCEPT !.order_items = @ + Len(available)]
          /\ last' = [Response("create", r.user, 0, 200, "", r.mails, "-", r.newid)
                         EXCEPT !.listed = r.sent]
    /\ req' = [req EXCEPT ![p] = Idle]
    /\ UNCHANGED <<carts, cart_items, payments, payment_items, catalog>>

\* a faulty variant: the order the session flushed stays in the table
CreateAborted_FlushKept(r) ==
    IF r.newid = 0 THEN orders
    ELSE orders \cup {NewOrder(r.newid, r.user,
                          AvailableCartItems(r.cart, is_available, r.purchased,
                                             r.pending), price)}

\* the orders table after a request that ended before its db.commit(): the
\* session is closed and what it flushed is rolled back
CreateAborted(r) == orders

\* the request ends at one of its awaits before db.commit() (a statement or
\* the notification raises, or the request is cancelled)
CreateAbort(p) ==
    /\ req[p].pc \in {"create_purchased", "create_pending", "create_flush",
                      "create_commit"}
    /\ orders' = CreateAborted(req[p])
    /\ last' = Response("create", req[p].user, 0, 500, "Internal Server Error",
                        0, "-", 0)
    /\ req' = [req EXCEPT ![p] = Idle]
    /\ UNCHANGED <<carts, cart_items, order_items, payments, payment_items, seq,
                   catalog>>

\* the sessions holding the row lock of order oid: a flushed, uncommitted
\* UPDATE of its status
LockedByOther(oid, p) ==
    \E q \in Procs \ {p} :
        /\ req[q].pc \in {"completed_items", "completed_commit"}
        /\ req[q].arg = oid
        /\ \E o \in req[q].row : o.status # Paid

\* cancel_order
CancelReadOrder(p, u, oid) ==
    /\ At(p, "idle")
    /\ LET found == OrderFor(oid, u) IN
       IF found = {}
       THEN /\ last' = Response("cancel", u, oid, 404, "Order not found.", 0, "-", 0)
            /\ UNCHANGED req
       ELSE /\ req' = [req EXCEPT ![p] =
                          [Idle EXCEPT !.pc = "cancel_payments", !.user = u,
                                       !.arg = oid, !.row = found]]
            /\ UNCHANGED last
    /\ UNCHANGED <<db, catalog>>

\* selectinload(OrderModel.payments), then the handler up to db.commit()
CancelReadPayments(p) ==
    /\ At(p, "cancel_payments")
    /\ LET r == req[p]
           o == CHOOSE x \in r.row : TRUE
           loaded == PaymentsOf(r.arg)
           loop == CancelLoop(ById(loaded), loaded)
       IN IF CancelRefusal(o.status) # ""
          THEN /\ last' = Response("cancel", r.user, r.arg, 400,
                                   CancelRefusal(o.status), 0, o.status, 0)
               /\ req' = [req EXCEPT ![p] = Idle]
          ELSE IF loop.raised
          THEN /\ last' = Response("cancel", r.user, r.arg, 500,
                        "Inconsistent state: a successful payment exists for this non-paid order. Please contact support.",
                        0, o.status, 0)
               /\ req' = [req EXCEPT ![p] = Idle]
          ELSE /\ req' = [req EXCEPT ![p] = [Goto(p, "cancel_commit") EXCEPT
                                               !.loaded = loaded]]
               /\ UNCHANGED last
    /\ UNCHANGED <<db, catalog>>

CancelCommit(p) ==
    /\ At(p, "cancel_commit")
    /\ ~LockedByOther(req[p].arg, p)
    /\ LET r == req[p]
           o == CHOOSE x \in r.row : TRUE
           loop == CancelLoop(ById(r.loaded), r.loaded)
           out == CancelPersisted(o, r.loaded, loop)
       IN /\ orders' = out.orders
          /\ payments' = out.payments
          /\ last' = Response("cancel", r.user, r.arg, 200,
                              "Order canceled successfully.", 0, o.status, 0)
    /\ req' = [req EXCEPT ![p] = Idle]
    /\ UNCHANGED <<carts, cart_items, order_items, payment_items, seq, catalog>>

\* stripe_webhook, checkout.session.completed
CompletedReadOrder(p, oid, ext) ==
    /\ At(p, "idle")
    /\ LET found == {o \in orders : o.id = oid} IN
       IF found = {}
       THEN /\ last' = [Response("completed", 0, oid, 404, "Order not found.", 0,
                                 "-", 0) EXCEPT !.ref = ext]
            /\ UNCHANGED req
       ELSE /\ req' = [req EXCEPT ![p] =
                          [Idle EXCEPT !.pc = "completed_flush", !.arg = oid,
                                       !.ref = ext, !.row = found]]
            /\ UNCHANGED last
    /\ UNCHANGED <<db, catalog>>

\* order.status = PAID; db.add(payment); await db.flush(): the UPDATE of the
\* order (when the status it was loaded with differs) and the payment id
CompletedFlush(p) ==
    /\ At(p, "completed_flush")
    /\ seq.payments < MaxPaymentsConc
    /\ (\E o \in req[p].row : o.status # Paid) => ~LockedByOther(req[p].arg, p)
    /\ seq' = [seq EXCEPT !.payments = @ + 1]
    /\ req' = [req EXCEPT ![p] = [Goto(p, "completed_items") EXCEPT
                                    !.newid = seq.payments + 1]]
    /\ UNCHANGED <<carts, cart_items, orders, order_items, payments, payment_items,
                   catalog, last>>

CompletedReadItems(p) ==
    /\ At(p, "completed_items")
    /\ req' = [req EXCEPT ![p] = [Goto(p, "completed_commit") EXCEPT
                                    !.loaded = OrderItemsOf(req[p].arg)]]
    /\ UNCHANGED <<db, catalog, last>>

CompletedCommit(p) ==
    /\ At(p, "completed_commit")
    /\ LET r == req[p]
           o == CHOOSE x \in r.row : TRUE
           items == ById(r.loaded)
       IN /\ orders' = IF o.status # Paid THEN SetOrderStatus(r.arg, Paid) ELSE orders
          /\ payments' = payments \cup {NewPayment(r.newid, o, r.ref)}
          /\ payment_items' = payment_items
                \cup NewPaymentItems(r.newid, seq.payment_items, items)
          /\ seq' = [seq EXCEPT !.payment_items = @ + Len(items)]
          /\ last' = [Response("completed", o.user_id, r.arg, 200, "success", 1,
                               o.status, r.newid) EXCEPT !.ref = r.ref]
    /\ req' = [req EXCEPT ![p] = Idle]
    /\ UNCHANGED <<carts, cart_items, order_items, catalog>>

\* user 1 has a cart with some movies in it
InitConc ==
    /\ price = InitialPrice
    /\ is_available = [m \in Movies |-> TRUE]
    /\ carts = {[id |-> 1, user_id |-> 1]}
    /\ \E ms \in SUBSET Movies :
          /\ ms # {}
          /\ cart_items = SetToBag({CartItem(1, m) : m \in ms})
    /\ orders = {}
    /\ order_items = {}
    /\ payments = {}
    /\ payment_items = {}
    /\ seq = [carts |-> 1, orders |-> 0, order_items |-> 0, payments |-> 0,
              payment_items |-> 0]
    /\ last = Response("init", 0, 0, 0, "", 0, "-", 0)
    /\ req = NoRequest

NextConc ==
    \E p \in Procs :
        \/ CreateReadCart(p, 1)
        \/ CreateReadPurchased(p)
        \/ CreateReadPending(p)
        \/ CreateFlush(p)
        \/ CreateCommit(p)
        \/ CreateAbort(p)
        \/ \E oid \in OrderIds : CancelReadOrder(p, 1, oid)
        \/ CancelReadPayments(p)
        \/ CancelCommit(p)
        \/ \E oid \in OrderIds, ext \in ExternalIds : CompletedReadOrder(p, oid, ext)
        \/ CompletedFlush(p)
        \/ CompletedReadItems(p)
        \/ CompletedCommit(p)

SpecConc == InitConc /\ [][NextConc]_vars

\* ------------------------------------------------- create, step by step
\* user 1 has a cart with some movies in it, of any availability
InitNotify ==
    /\ price = InitialPrice
    /\ is_available \in [Movies -> BOOLEAN]
    /\ carts = {[id |-> 1, user_id |-> 1]}
    /\ \E ms \in SUBSET Movies :
          /\ ms # {}
          /\ cart_items = SetToBag({CartItem(1, m) : m \in ms})
    /\ orders = {}
    /\ order_items = {}
    /\ payments = {}
    /\ payment_items = {}
    /\ seq = [carts |-> 1, orders |-> 0, order_items |-> 0, payments |-> 0,
              payment_items |-> 0]
    /\ last = Response("init", 0, 0, 0, "", 0, "-", 0)
    /\ req = NoRequest

NextNotify ==
    \/ \E p \in Procs :
          \/ CreateReadCart(p, 1)
          \/ CreateReadPurchased(p)
          \/ CreateReadPending(p)
          \/ CreateFlush(p)
          \/ CreateCommit(p)
          \/ CreateAbort(p)
    \/ /\ UNCHANGED req
       /\ \E oid \in OrderIds, ext \in ExternalIds :
             CheckoutSessionCompleted(oid, ext) /\ seq'.payments <= MaxPaymentsConc

SpecNotify == InitNotify /\ [][NextNotify]_vars

\* ------------------------------------------------------- interleaved adds
\* add_movie_to_cart split at its awaited statements.  carts.user_id is
\* unique: an INSERT of a cart waits for the uncommitted INSERT of a cart of
\* the same user and fails once that one is committed.
AddReadPurchased(p, u, m) ==
    /\ At(p, "idle")
    /\ IF AlreadyPurchased(u, m)
       THEN /\ last' = Response("add", u, m, 400,
                   "You have already purchased this movie. Repeat purchases are not allowed.",
                   0, "-", 0)
            /\ UNCHANGED req
       ELSE /\ req' = [req EXCEPT ![p] =
                          [Idle EXCEPT !.pc = "add_cart", !.user = u, !.arg = m]]
            /\ UNCHANGED last
    /\ UNCHANGED <<db, catalog>>

AddReadCart(p) ==
    /\ At(p, "add_cart")
    /\ LET found == CartOf(req[p].user) IN
       req' = [req EXCEPT ![p] =
                  IF found = {} THEN Goto(p, "add_flush_cart")
                  ELSE [Goto(p, "add_item") EXCEPT
                           !.newid = (CHOOSE c \in found : TRUE).id]]
    /\ UNCHANGED <<db, catalog, last>>

\* the sessions that flushed a cart of user u and have not committed
CartInsertedByOther(u, p) ==
    \E q \in Procs \ {p} :
        /\ req[q].pc \in {"add_item", "add_commit"}
        /\ req[q].user = u
        /\ req[q].row # {}

\* db.add(cart); await db.flush(); await db.refresh(cart)
AddFlushCart(p) ==
    /\ At(p, "add_flush_cart")
    /\ ~CartInsertedByOther(req[p].user, p)
    /\ seq' = [seq EXCEPT !.carts = @ + 1]
    /\ IF CartOf(req[p].user) # {}
       THEN \* IntegrityError: the session is discarded
            /\ last' = Response("add", req[p].user, req[p].arg, 500,
                                "Internal Server Error", 0, "-", 0)
            /\ req' = [req EXCEPT ![p] = Idle]
       ELSE /\ req' = [req EXCEPT ![p] = [Goto(p, "add_item") EXCEPT
                           !.newid = seq.carts + 1,
                           !.row = {[id |-> seq.carts + 1, user_id |-> req[p].user]}]]
            /\ UNCHANGED last
    /\ UNCHANGED <<carts, cart_items, orders, order_items, payments, payment_items,
                   catalog>>

AddReadItem(p) ==
    /\ At(p, "add_item")
    /\ IF ExistingItem(req[p].newid, req[p].arg)
       THEN /\ last' = Response("add", req[p].user, req[p].arg, 400,
                                "Movie already in cart.", 0, "-", 0)
            /\ req' = [req EXCEPT ![p] = Idle]
       ELSE /\ req' = [req EXCEPT ![p] = Goto(p, "add_commit")]
            /\ UNCHANGED last
    /\ UNCHANGED <<db, catalog>>

\* db.add(new_item); await db.commit()
AddCommit(p) ==
    /\ At(p, "add_commit")
    /\ LET r == req[p] IN
       IF ViolatesUnique(r.newid, r.arg)
       THEN \* IntegrityError: the session is discarded
            /\ last' = Response("add", r.user, r.arg, 500, "Internal Server Error",
                                0, "-", 0)
            /\ UNCHANGED <<carts, cart_items>>
       ELSE /\ carts' = carts \cup r.row
            /\ cart_items' = cart_items (+) SetToBag({CartItem(r.newid, r.arg)})
            /\ last' = Response("add", r.user, r.arg, 200,
                                "Movie added to cart successfully.", 0, "-", 0)
    /\ req' = [req EXCEPT ![p] = Idle]
    /\ UNCHANGED <<orders, order_items, payments, payment_items, seq, catalog>>

\* the steps of the request in slot p once it has started
AddStep(p) == AddReadCart(p) \/ AddFlushCart(p) \/ AddReadItem(p) \/ AddCommit(p)

InitAdd ==
    /\ price = InitialPrice
    /\ is_available = [m \in Movies |-> TRUE]
    /\ EmptyDb
    /\ last = Response("init", 0, 0, 0, "", 0, "-", 0)
    /\ req = NoRequest

NextAdd ==
    \/ \E p \in Procs, m \in Movies : AddReadPurchased(p, 1, m)
    \/ \E p \in Procs : AddReadCart(p)
    \/ \E p \in Procs : AddFlushCart(p)
    \/ \E p \in Procs : AddReadItem(p)
    \/ \E p \in Procs : AddCommit(p)
    \/ \E m \in Movies : RemoveMovieFromCart(1, m) /\ UNCHANGED req

\* every request that has started is run to its end by the event loop
SpecAdd ==
    /\ InitAdd
    /\ [][NextAdd]_vars
    /\ \A p \in Procs : WF_vars(AddStep(p))

\* ----------------------------------------------------------------- checkout
\* a database with an order of user 1 (two items) and an order of user 2, of
\* any status, and a cart of user 1
InitCheckout ==
    /\ price = InitialPrice
    /\ is_available = [m \in Movies |-> TRUE]
    /\ carts = {[id |-> 1, user_id |-> 1]}
    /\ cart_items = SetToBag({CartItem(1, 1)})
    /\ \E s1 \in OrderStatusEnum, s2 \in OrderStatusEnum :
          orders = {[id |-> 1, user_id |-> 1, status |-> s1, total_amount |-> 2499],
                    [id |-> 2, user_id |-> 2, status |-> s2, total_amount |-> 700]}
    /\ order_items = {[id |-> 1, order_id |-> 1, movie_id |-> 1, price_at_order |-> 500],
                      [id |-> 2, order_id |-> 1, movie_id |-> 2, price_at_order |-> 1999],
                      [id |-> 3, order_id |-> 2, movie_id |-> 2, price_at_order |-> 700]}
    /\ payments = {}
    /\ payment_items = {}
    /\ seq = [carts |-> 1, orders |-> 2, order_items |-> 3, payments |-> 0,
              payment_items |-> 0]
    /\ last = Response("init", 0, 0, 0, "", 0, "-", 0)
    /\ req = NoRequest

NextCheckout ==
    /\ UNCHANGED req
    /\
       \/ \E u \in Users, oid \in OrderIds : CreateCheckoutSession(u, oid)
       \/ \E oid \in OrderIds, uid \in Users : ChargeFailed(oid, uid)
       \/ \E oid \in OrderIds, ext \in ExternalIds :
               CheckoutSessionCompleted(oid, ext) /\ seq'.payments <= MaxPaymentsCheckout
       \/ \E oid \in OrderIds, ext \in ExternalIds :
               NotificationFailed(oid, ext) /\ seq'.payments <= MaxPaymentsCheckout
       \/ \E u \in Users, oid \in OrderIds : CancelOrder(u, oid)

SpecCheckout == InitCheckout /\ [][NextCheckout]_vars

\* ---------------------------------------------------------------- two users
\* the cart, order and webhook requests of both users, one at a time
NextUsers ==
    /\ UNCHANGED req
    /\
       \/ \E u \in Users, m \in Movies : AddMovieToCart(u, m)
       \/ \E u \in Users, m \in Movies : RemoveMovieFromCart(u, m)
       \/ \E u \in Users : ClearCart(u)
       \/ \E u \in Users : CreateOrder(u) /\ seq'.orders <= MaxOrdersUsers
       \/ \E oid \in OrderIds, ext \in ExternalIds :
               CheckoutSessionCompleted(oid, ext) /\ seq'.payments <= MaxPaymentsUsers

SpecUsers == Init /\ [][NextUsers]_vars

\* ------------------------------------------------------------ price updates
\* update_movie with a price in the body (two decimal places, in cents)
UpdateMovie(m, p) ==
    IF m \notin Movies
    THEN /\ last' = Response("update", 0, m, 404,
                             "Movie with the given ID was not found.", 0, "-", 0)
         /\ UNCHANGED <<db, catalog>>
    ELSE /\ price' = [price EXCEPT ![m] = p]
         /\ last' = Response("update", 0, m, 200, "Movie updated successfully.",
                             0, "-", 0)
         /\ UNCHANGED <<db, is_available>>

NextPrice ==
    /\ UNCHANGED req
    /\
       \/ \E m \in Movies : AddMovieToCart(1, m)
       \/ CreateOrder(1) /\ seq'.orders <= MaxOrders
       \/ \E oid \in OrderIds : CancelOrder(1, oid)
       \/ \E oid \in OrderIds, ext \in ExternalIds :
               CheckoutSessionCompleted(oid, ext) /\ seq'.payments <= MaxPaymentsPrice
       \/ \E m \in Movies \cup {0}, p \in Prices : UpdateMovie(m, p)

SpecPrice == Init /\ [][NextPrice]_vars

\* ------------------------------------------------------- purchased movies
\* a database in which user 1 has paid for the movies ms: per movie a Paid
\* order, its OrderItem, a Successful payment and its PaymentItem; no carts
SeedPurchases(ms) ==
    /\ orders = {[id |-> m, user_id |-> 1, status |-> Paid,
                  total_amount |-> InitialPrice[m]] : m \in ms}
    /\ order_items = {[id |-> m, order_id |-> m, movie_id |-> m,
                       price_at_order |-> InitialPrice[m]] : m \in ms}
    /\ payments = {[id |-> m, user_id |-> 1, order_id |-> m,
                    amount |-> InitialPrice[m], status |-> Successful,
                    external_payment_id |-> "123"] : m \in ms}
    /\ payment_items = {[id |-> m, payment_id |-> m, order_item_id |-> m,
                         price_at_payment |-> InitialPrice[m]] : m \in ms}

InitPurchased ==
    /\ price = InitialPrice
    /\ is_available = [m \in Movies |-> TRUE]
    /\ carts = {}
    /\ cart_items = EmptyBag
    /\ \E ms \in SUBSET Movies : SeedPurchases(ms)
    /\ seq = [carts |-> 0, orders |-> 2, order_items |-> 2, payments |-> 2,
              payment_items |-> 2]
    /\ last = Response("init", 0, 0, 0, "", 0, "-", 0)
    /\ req = NoRequest

NextPurchased ==
    /\ UNCHANGED req
    /\
       \/ \E u \in Users, m \in Movies : AddMovieToCart(u, m)
       \/ \E u \in Users, m \in Movies : RemoveMovieFromCart(u, m)
       \/ \E u \in Users : ClearCart(u)

SpecPurchased == InitPurchased /\ [][NextPurchased]_vars

\* ------------------------------------------------------------------ claims
\* what the claims speak of, stated on the tables alone
MoviesOfOrder(oid, tbl) == {oi.movie_id : oi \in {x \in tbl : x.order_id = oid}}

SuccessfulPaymentsOf(oid) ==
    {p \in payments : p.order_id = oid /\ p.status = Successful}

\* U holds a Successful payment with a PaymentItem on an OrderItem for m
HasPurchased(u, m) ==
    \E p \in payments, pi \in payment_items, oi \in order_items :
        /\ p.user_id = u /\ p.status = Successful
        /\ pi.payment_id = p.id /\ pi.order_item_id = oi.id
        /\ oi.movie_id = m

\* a Pending order of U references m
InPendingOrder(u, m) ==
    \E o \in orders :
        /\ o.user_id = u /\ o.status = Pending
        /\ m \in MoviesOfOrder(o.id, order_items)

InCart(u, m) ==
    \E c \in carts :
        c.user_id = u /\ BagIn([cart_id |-> c.id, movie_id |-> m], cart_items)

MoviesInCart(u) == {m \in Movies : InCart(u, m)}

\* C1: the only order status changes that ever occur are Pending -> Paid and
\* Pending -> Canceled: a Paid or Canceled order never becomes Pending again
\* and a Canceled order is never changed to Paid.
C1_OnlyPendingOrdersChange ==
    [][\A o \in orders : \A n \in orders' :
          (n.id = o.id /\ n.status # o.status)
              => (o.status = Pending /\ n.status \in {Paid, OrderCanceled})]_vars

\* C2: every order has at most one Successful payment, also when
\* checkout.session.completed is delivered again for the same order.
C2_AtMostOneSuccessfulPayment ==
    \A o \in orders : Cardinality(SuccessfulPaymentsOf(o.id)) <= 1

\* C3: also when a cancel and a checkout.session.completed for the same
\* Pending order interleave, no Canceled order has a Successful payment.
C3_NoCanceledOrderWithSuccessfulPayment ==
    \A o \in orders : o.status = OrderCanceled => SuccessfulPaymentsOf(o.id) = {}

\* C4: create(U) never puts into the new order a movie U has already
\* successfully purchased, and a create whose cart holds only such movies
\* fails with "No movies available to create an order." and creates no order.
C4_PurchasedMovieNeverReordered ==
    [][\A u \in Users :
          (last'.op = "create" /\ last'.user = u) =>
              /\ last'.code = 200 =>
                    \A m \in MoviesOfOrder(last'.res, order_items') :
                        ~HasPurchased(u, m)
              /\ (MoviesInCart(u) # {} /\ \A m \in MoviesInCart(u) : HasPurchased(u, m))
                    => /\ last'.code = 400
                       /\ last'.detail = "No movies available to create an order."
                       /\ orders' = orders
                       /\ order_items' = order_items]_vars

\* C5: two interleaved create(U) requests never both commit a Pending order
\* that references the same movie.
C5_NoDoubleBooking ==
    \A u \in Users, m \in Movies :
        Cardinality({o \in orders :
            /\ o.user_id = u /\ o.status = Pending
            /\ m \in MoviesOfOrder(o.id, order_items)}) <= 1

\* C6: requests executing one at a time, create(U) never includes a movie
\* that a Pending order of U already references, no movie is in two Pending
\* orders of the same user, and a create whose cart holds only such movies
\* fails with "No movies available to create an order." and creates no order.
NoMovieInTwoPendingOrders ==
    \A o1 \in orders, o2 \in orders :
        (o1.id # o2.id /\ o1.user_id = o2.user_id
            /\ o1.status = Pending /\ o2.status = Pending)
        => MoviesOfOrder(o1.id, order_items) \cap MoviesOfOrder(o2.id, order_items) = {}

C6_CreateSkipsPendingMovies ==
    /\ []NoMovieInTwoPendingOrders
    /\ [][\A u \in Users :
            (last'.op = "create" /\ last'.user = u) =>
                /\ last'.code = 200 =>
                      \A m \in MoviesOfOrder(last'.res, order_items') :
                          ~InPendingOrder(u, m)
                /\ (MoviesInCart(u) # {} /\ \A m \in MoviesInCart(u) : InPendingOrder(u, m))
                      => /\ last'.code = 400
                         /\ last'.detail = "No movies available to create an order."
                         /\ orders' = orders
                         /\ order_items' = order_items]_vars

\* a create by a user whose cart holds a movie of a Pending order of theirs
\* and a movie that is free: the order was created without the former
C6_Witness ==
    /\ last.op = "create" /\ last.code = 200
    /\ \E m \in MoviesInCart(last.user) :
          /\ m \notin MoviesOfOrder(last.res, order_items)
          /\ is_available[m]
          /\ \E o \in orders : /\ o.id # last.res /\ o.status = Pending
                               /\ o.user_id = last.user
                               /\ m \in MoviesOfOrder(o.id, order_items)

\* C7: checkout.session.completed for a Pending order O sets O to Paid and
\* creates exactly one Payment (Successful, O's user, O.total_amount, the
\* event's external reference) and exactly one PaymentItem per OrderItem of O
\* with price_at_payment equal to the item's price_at_order.
C7_CompletedPaysPendingOrder ==
    [][\A o \in orders :
          (last'.op = "completed" /\ last'.arg = o.id /\ o.status = Pending) =>
              /\ orders' = (orders \ {o}) \cup {[o EXCEPT !.status = Paid]}
              /\ payments \subseteq payments'
              /\ payment_items \subseteq payment_items'
              /\ \E p \in payments' :
                    /\ payments' \ payments = {p}
                    /\ p.status = Successful
                    /\ p.order_id = o.id
                    /\ p.user_id = o.user_id
                    /\ p.amount = o.total_amount
                    /\ p.external_payment_id = last'.ref
                    /\ \A pi \in payment_items' \ payment_items :
                          /\ pi.payment_id = p.id
                          /\ \E oi \in order_items :
                                oi.order_id = o.id /\ oi.id = pi.order_item_id
                    /\ \A oi \in order_items :
                          oi.order_id = o.id =>
                              \E pi \in payment_items' \ payment_items :
                                  /\ pi.order_item_id = oi.id
                                  /\ pi.price_at_payment = oi.price_at_order
                                  /\ \A qi \in payment_items' \ payment_items :
                                        qi.order_item_id = oi.id => qi = pi]_vars

\* a completed event has just paid a Pending order of two items
C7_Witness ==
    /\ last.op = "completed" /\ last.code = 200 /\ last.prev = Pending
    /\ Cardinality({oi \in order_items : oi.order_id = last.arg}) = 2
    /\ \E o \in orders : o.id = last.arg /\ o.status = Paid

\* C10: once add(U,I) has succeeded and until I is removed from U's cart, a
\* further add(U,I) fails with the 400 "Movie already in cart." error and
\* creates nothing; a cart holds at most one CartItem per movie.
AtMostOneCartItemPerMovie ==
    \A ci \in BagToSet(cart_items) : CopiesIn(ci, cart_items) = 1

C10_SecondAddAlreadyInCart ==
    /\ []AtMostOneCartItemPerMovie
    /\ [][\A u \in Users, m \in Movies :
            (last'.op = "add" /\ last'.user = u /\ last'.arg = m /\ InCart(u, m)) =>
                /\ last'.code = 400
                /\ last'.detail = "Movie already in cart."
                /\ carts' = carts
                /\ cart_items' = cart_items]_vars

\* C10 as the code has it: the further add fails with a 400 error and creates
\* nothing; the error is "Movie already in cart." unless U has meanwhile
\* successfully purchased I, and then it is the "already purchased" error.
C10_SecondAddRejected ==
    /\ []AtMostOneCartItemPerMovie
    /\ [][\A u \in Users, m \in Movies :
            (last'.op = "add" /\ last'.user = u /\ last'.arg = m /\ InCart(u, m)) =>
                /\ last'.code = 400
                /\ last'.detail =
                      IF HasPurchased(u, m)
                      THEN "You have already purchased this movie. Repeat purchases are not allowed."
                      ELSE "Movie already in cart."
                /\ carts' = carts
                /\ cart_items' = cart_items]_vars

\* an add of a movie that is in the cart was answered "Movie already in cart."
C10_Witness ==
    /\ last.op = "add" /\ last.code = 400
    /\ last.detail = "Movie already in cart."
    /\ InCart(last.user, last.arg)
    /\ Cardinality(MoviesInCart(last.user)) = 2
\* C8: cancel on a Pending order that has a Successful payment answers the 500
\* inconsistency error and persists nothing: the order stays Pending and every
\* payment of the order keeps its status, those visited before the
\* Successful one included.
C8_InconsistentCancelPersistsNothing ==
    [][\A o \in orders :
          (/\ last'.op = "cancel" /\ last'.user = o.user_id /\ last'.arg = o.id
           /\ o.status = Pending
           /\ SuccessfulPaymentsOf(o.id) # {}) =>
              /\ last'.code = 500
              /\ last'.detail = "Inconsistent state: a successful payment exists for this non-paid order. Please contact support."
              /\ orders' = orders
              /\ payments' = payments
              /\ payment_items' = payment_items]_vars

\* the 500 was answered for a Pending order whose payment list holds a
\* Canceled payment before the Successful one
C8_Witness ==
    /\ last.op = "cancel" /\ last.code = 500
    /\ \E o \in orders :
          /\ o.id = last.arg /\ o.user_id = last.user /\ o.status = Pending
          /\ \E p \in payments, q \in payments :
                /\ p.order_id = o.id /\ q.order_id = o.id
                /\ p.id < q.id
                /\ p.status = Canceled /\ q.status = Successful

\* C9: a successful cancel of a Pending order sets the order to Canceled, sets
\* every payment of the order that is not Refunded to Canceled and leaves the
\* Refunded payments of the order and the payments of other orders unchanged.
C9_CancelCascade ==
    [][\A o \in orders :
          (/\ last'.op = "cancel" /\ last'.user = o.user_id /\ last'.arg = o.id
           /\ o.status = Pending
           /\ SuccessfulPaymentsOf(o.id) = {}) =>
              /\ last'.code = 200
              /\ orders' = (orders \ {o}) \cup {[o EXCEPT !.status = OrderCanceled]}
              /\ {p.id : p \in payments'} = {p.id : p \in payments}
              /\ Cardinality(payments') = Cardinality(payments)
              /\ \A p \in payments :
                    IF p.order_id = o.id /\ p.status # Refunded
                    THEN [p EXCEPT !.status = Canceled] \in payments'
                    ELSE p \in payments'
              /\ payment_items' = payment_items]_vars

\* an order with a Canceled and a Refunded payment has just been canceled,
\* while another order holds a Successful payment
C9_Witness ==
    /\ last.op = "cancel" /\ last.code = 200 /\ last.prev = Pending
    /\ \E o \in orders : o.id = last.arg /\ o.status = OrderCanceled
    /\ \E p \in payments : p.order_id = last.arg /\ p.status = Refunded
    /\ \E p \in payments : p.order_id = last.arg /\ p.status = Canceled
    /\ \E p \in payments : p.order_id # last.arg /\ p.status = Successful

C12_PriceAtOrderIsSnapshot ==
    [][/\ (last'.op = "create" /\ last'.code = 200) =>
             \A oi \in order_items' \ order_items :
                 /\ oi.order_id = last'.res
                 /\ oi.price_at_order = price[oi.movie_id]
       /\ \A oi \in order_items :
             \E n \in order_items' :
                 /\ n.id = oi.id
                 /\ n.price_at_order = oi.price_at_order
                 /\ \A n2 \in order_items' : n2.id = oi.id => n2 = n]_vars

\* an item ordered after a price update, whose movie has been repriced since
C12_Witness ==
    \E oi \in order_items :
        /\ oi.price_at_order # InitialPrice[oi.movie_id]
        /\ oi.price_at_order # price[oi.movie_id]
        /\ \E o \in orders : o.id = oi.order_id /\ o.status = Paid

\* C13: each Order created by create has total_amount equal to the sum of
\* the price_at_order of its OrderItems, and no operation changes
\* total_amount after creation (prices in integer cents).
RECURSIVE SumPriceAtOrder(_)
SumPriceAtOrder(items) ==
    IF items = {} THEN 0
    ELSE LET oi == CHOOSE x \in items : TRUE
         IN oi.price_at_order + SumPriceAtOrder(items \ {oi})

TotalIsSumOfItems ==
    \A o \in orders :
        o.total_amount = SumPriceAtOrder({oi \in order_items : oi.order_id = o.id})

C13_TotalAmountIsSumOfItems ==
    /\ []TotalIsSumOfItems
    /\ [][\A o \in orders :
            \E n \in orders' : n.id = o.id /\ n.total_amount = o.total_amount]_vars

\* a canceled order of two items whose movies have both been repriced since
C13_Witness ==
    \E o \in orders :
        /\ o.status = OrderCanceled
        /\ Cardinality({oi \in order_items : oi.order_id = o.id}) = 2
        /\ \A oi \in order_items :
              oi.order_id = o.id => price[oi.movie_id] # oi.price_at_order
        /\ last.op = "update"

\* C14: if every cart item of U is excluded (unavailable, already purchased,
\* or already in a Pending order), create(U) fails with 400 "No movies
\* available to create an order." and the Order rows and OrderItem rows are
\* exactly what they were before the call.
C14_AllExcludedCreatesNothing ==
    [][\A u \in Users :
          (/\ last'.op = "create" /\ last'.user = u
           /\ MoviesInCart(u) # {}
           /\ \A m \in MoviesInCart(u) :
                 \/ ~is_available[m]
                 \/ HasPurchased(u, m)
                 \/ InPendingOrder(u, m)) =>
              /\ last'.code = 400
              /\ last'.detail = "No movies available to create an order."
              /\ orders' = orders
              /\ order_items' = order_items]_vars

\* C15: an Order and its OrderItems become visible together: in every
\* committed state every Order created by create has at least one OrderItem,
\* the create that commits adds the Order with exactly one OrderItem per
\* available cart item, and a create request that fails or is aborted at any
\* step before its commit leaves no Order and no OrderItem behind.
EveryOrderHasItems ==
    \A o \in orders : \E oi \in order_items : oi.order_id = o.id

CreatePcs == {"create_purchased", "create_pending", "create_flush", "create_commit"}

C15_OrderAndItemsTogether ==
    /\ []EveryOrderHasItems
    /\ [][\A p \in Procs :
            (req[p].pc \in CreatePcs /\ req'[p].pc = "idle") =>
                IF req[p].pc = "create_commit" /\ last'.code = 200
                THEN LET avail == AvailableCartItems(req[p].cart, is_available,
                                      req[p].purchased, req[p].pending)
                         added == order_items' \ order_items
                     IN /\ \E o \in orders' :
                              /\ o.id = last'.res
                              /\ orders' \ orders = {o}
                              /\ \A oi \in added : oi.order_id = o.id
                        /\ orders \subseteq orders'
                        /\ order_items \subseteq order_items'
                        /\ Cardinality(added) = Len(avail)
                        /\ {oi.movie_id : oi \in added} = Range(avail)
                        /\ avail # <<>>
                ELSE /\ orders' = orders
                     /\ order_items' = order_items]_vars

\* a create was aborted after its flush had taken an order id, and a later
\* create committed an order of two items
C15_Witness ==
    /\ last.op = "create" /\ last.code = 200
    /\ Cardinality(OrderItemsOf(last.res)) = 2
    /\ seq.orders = 2
    /\ Cardinality(orders) = 1

\* C16: cancel on a Paid order fails with 400 (already paid, request a refund
\* instead) and cancel on a Canceled order fails with 400 (already
\* canceled); in both cases the order's status and the status of every one
\* of its payments are unchanged.
C16_CancelRefusedUnlessPending ==
    [][\A o \in orders :
          (/\ last'.op = "cancel" /\ last'.user = o.user_id /\ last'.arg = o.id
           /\ o.status \in {Paid, OrderCanceled}) =>
              /\ last'.code = 400
              /\ last'.detail =
                    IF o.status = Paid
                    THEN "Order has already been paid and cannot be canceled. Please request a refund instead."
                    ELSE "Order has already been canceled."
              /\ o \in orders'
              /\ \A p \in payments : p.order_id = o.id => p \in payments'
              /\ Cardinality(payments') = Cardinality(payments)]_vars

\* a cancel was refused for a Paid order that has a Successful and a Canceled
\* payment
C16_Witness ==
    /\ last.op = "cancel" /\ last.code = 400 /\ last.prev = Paid
    /\ \E o \in orders : o.id = last.arg /\ o.user_id = last.user /\ o.status = Paid
    /\ \E p \in payments : p.order_id = last.arg /\ p.status = Successful
    /\ \E p \in payments : p.order_id = last.arg /\ p.status = Canceled

\* C17: cancel(U, order_id) on an order owned by another user returns the
\* same 404 "Order not found." as for a nonexistent order id and leaves that
\* order and its payments unchanged, whatever the order's status.
C17_CancelOfForeignOrderNotFound ==
    [][\A u \in Users :
          (last'.op = "cancel" /\ last'.user = u
           /\ ~\E o \in orders : o.id = last'.arg /\ o.user_id = u) =>
              /\ last' = Response("cancel", u, last'.arg, 404, "Order not found.",
                                  0, "-", 0)
              /\ orders' = orders
              /\ payments' = payments
              /\ payment_items' = payment_items]_vars

\* the 404 was answered for a Pending order of another user that has a
\* Canceled payment
C17_Witness ==
    /\ last.op = "cancel" /\ last.code = 404
    /\ \E o \in orders :
          /\ o.id = last.arg /\ o.user_id # last.user /\ o.status = Pending
          /\ \E p \in payments : p.order_id = o.id /\ p.status = Canceled

\* C19: a charge.failed event for an existing order changes no order status
\* and creates no Payment or PaymentItem (a Pending order stays Pending); it
\* sends one "unsuccessful payment" notification and answers {status: fail}.
C19_ChargeFailedChangesNothing ==
    [][\A o \in orders :
          (last'.op = "charge_failed" /\ last'.arg = o.id) =>
              /\ orders' = orders
              /\ payments' = payments
              /\ payment_items' = payment_items
              /\ last'.code = 200
              /\ last'.detail = "fail"
              /\ last'.emails = 1]_vars

\* a charge.failed was answered for an order that is still Pending
C19_Witness ==
    /\ last.op = "charge_failed" /\ last.code = 200 /\ last.prev = Pending
    /\ \E o \in orders : o.id = last.arg /\ o.status = Pending
    /\ PaymentsOf(last.arg) = {}

\* C20: create_checkout(U, order_id) returns a checkout URL only when the
\* order exists, belongs to U and is Pending; it returns 404 when the order
\* is missing or owned by another user and 400 "Order already processed."
\* when the order is Paid or Canceled; in every case it changes no order,
\* payment or cart state, and on success the gateway request has exactly one
\* line item per OrderItem priced at price_at_order in cents.
BagOfSeq(s) == [x \in Range(s) |-> Cardinality({i \in DOMAIN s : s[i] = x})]

C20_CheckoutPreconditionsAndLines ==
    [][\A u \in Users :
          (last'.op = "checkout" /\ last'.user = u) =>
              LET found == {o \in orders : o.id = last'.arg /\ o.user_id = u}
                  items == ById(OrderItemsOf(last'.arg))
              IN /\ UNCHANGED <<carts, cart_items, orders, order_items, payments,
                               payment_items>>
                 /\ IF found = {}
                    THEN last'.code = 404 /\ last'.detail = "Order not found."
                    ELSE IF \E o \in found : o.status # Pending
                    THEN last'.code = 400 /\ last'.detail = "Order already processed."
                    ELSE /\ last'.code = 200
                         /\ Len(last'.lines) = Len(items)
                         /\ BagOfSeq(last'.lines) =
                               BagOfSeq([i \in DOMAIN items |-> items[i].price_at_order])]_vars

\* C18: when two add(U,I) requests for the same user and movie interleave,
\* both requests terminate, at most one CartItem for (U's cart, I) and at
\* most one Cart for U exist afterwards, and the losing request ends with an
\* "already in cart" or storage-conflict error outcome rather than with
\* success.
AtMostOneCartPerUser == \A u \in Users : Cardinality(CartOf(u)) <= 1

AddPcs == {"add_cart", "add_flush_cart", "add_item", "add_commit"}

C21_OneNotificationBeforeOrder ==
    [][\A p \in Procs :
          /\ (req[p].pc = "create_pending" /\ req'[p] # req[p]) =>
                /\ orders' = orders /\ order_items' = order_items /\ seq' = seq
                /\ (req'[p].pc = "idle" /\ last'.code = 400) =>
                      /\ last'.detail = "No movies available to create an order."
                      /\ last'.emails = 1
                      /\ last'.listed = req[p].cart
          /\ (req[p].pc \in {"create_flush", "create_commit"} /\ req'[p].pc # "idle") =>
                /\ req'[p].mails = req[p].mails
                /\ req'[p].sent = req[p].sent
          /\ (req[p].pc = "create_commit" /\ req'[p].pc = "idle" /\ last'.code = 200) =>
                LET excluded == SelectSeq(req[p].cart,
                        LAMBDA m : m \notin MoviesOfOrder(last'.res, order_items'))
                IN /\ last'.listed = excluded
                   /\ last'.listed = req[p].sent
                   /\ last'.emails = req[p].mails
                   /\ last'.emails = IF excluded = <<>> THEN 0 ELSE 1]_vars

\* the order was created without the unavailable movie 2, which the one
\* notification lists
C21_Witness ==
    /\ last.op = "create" /\ last.code = 200
    /\ last.emails = 1 /\ last.listed = <<2>>
    /\ ~is_available[2]
    /\ MoviesOfOrder(last.res, order_items) = {1}

\* C22: if sending the success notification fails during a
\* checkout.session.completed event, the Paid status of the order and the
\* Payment and PaymentItems written by that event remain committed.
C22_NotificationFailureKeepsPayment ==
    [][\A o \in orders :
          (/\ last'.op = "completed" /\ last'.arg = o.id
           /\ last'.code = 500 /\ last'.emails = 0) =>
              /\ \E n \in orders' : n.id = o.id /\ n.status = Paid
              /\ \E p \in payments' \ payments :
                    /\ p.order_id = o.id /\ p.status = Successful
                    /\ p.amount = o.total_amount
                    /\ p.external_payment_id = last'.ref
                    /\ \A oi \in order_items :
                          oi.order_id = o.id =>
                              \E pi \in payment_items' \ payment_items :
                                  /\ pi.payment_id = p.id
                                  /\ pi.order_item_id = oi.id
                                  /\ pi.price_at_payment = oi.price_at_order]_vars

\* the event of a Pending order of two items was answered 500 for the
\* notification, and the order is Paid with its payment
C22_Witness ==
    /\ last.op = "completed" /\ last.code = 500 /\ last.prev = Pending
    /\ \E o \in orders : o.id = last.arg /\ o.status = Paid
    /\ \E p \in payments : p.id = last.res /\ p.order_id = last.arg
    /\ Cardinality({pi \in payment_items : pi.payment_id = last.res}) = 2

\* the carts of a user and the rows of a bag of cart items that are in them
CartIdsOf(u) == {c.id : c \in {x \in carts : x.user_id = u}}

RowsIn(items, ids) == {ci \in BagToSet(items) : ci.cart_id \in ids}

\* the bag `after` is the bag `before` without the rows `gone`
Without(before, after, gone) ==
    /\ BagToSet(after) = BagToSet(before) \ gone
    /\ \A ci \in BagToSet(after) : CopiesIn(ci, after) = CopiesIn(ci, before)

\* C23: each user has at most one Cart; a Cart row is created only by an add
\* of that user that finds none and then succeeds, and remove, clear and
\* create never create or delete a Cart row.
NoTwoCartsOfOneUser ==
    \A c1 \in carts, c2 \in carts : c1.user_id = c2.user_id => c1 = c2

C24_ClearEmptiesOwnCart ==
    [][\A u \in Users :
          (last'.op = "clear" /\ last'.user = u) =>
              /\ carts' = carts
              /\ IF RowsIn(cart_items, CartIdsOf(u)) = {}
                 THEN /\ last'.code = 404
                      /\ last'.detail = "Your cart is already empty."
                      /\ cart_items' = cart_items
                 ELSE /\ last'.code = 200
                      /\ Without(cart_items, cart_items', RowsIn(cart_items, CartIdsOf(u)))]_vars

\* a cart of two items has just been cleared while the other user's cart
\* holds its two items
C24_Witness ==
    /\ last.op = "clear" /\ last.code = 200
    /\ CartIdsOf(last.user) # {}
    /\ MoviesInCart(last.user) = {}
    /\ \E u \in Users : u # last.user /\ MoviesInCart(u) = Movies

C26_CreateKeepsCart ==
    [][last'.op = "create" =>
          /\ carts' = carts
          /\ cart_items' = cart_items
          /\ last'.code = 200 =>
                \A m \in MoviesOfOrder(last'.res, order_items') :
                    \E ci \in BagToSet(cart_items') :
                        ci.cart_id \in CartIdsOf(last'.user) /\ ci.movie_id = m]_vars

\* an order of two movies has just been created and both are in the cart
C26_Witness ==
    /\ last.op = "create" /\ last.code = 200
    /\ MoviesOfOrder(last.res, order_items) = Movies
    /\ MoviesInCart(last.user) = Movies

\* the user has a Canceled order that contains the movie
InCanceledOrder(u, m) ==
    \E o \in orders :
        /\ o.user_id = u /\ o.status = "Canceled"
        /\ m \in MoviesOfOrder(o.id, order_items)

\* C27: a movie M that create(U) placed in Pending order O and that stays in
\* U's cart, available and not purchased, is excluded by every further
\* create(U) for as long as O is Pending, and once cancel(U,O) has succeeded
\* a further create(U) includes M in a new Pending order.
C27_PendingBlocksUntilCancel ==
    [][\A u \in Users, m \in Movies :
          (/\ last'.op = "create" /\ last'.user = u
           /\ InCart(u, m) /\ is_available[m] /\ ~HasPurchased(u, m)) =>
              /\ InPendingOrder(u, m) =>
                    m \notin MoviesOfOrder(last'.res, order_items')
              /\ (~InPendingOrder(u, m) /\ InCanceledOrder(u, m)) =>
                    /\ last'.code = 200
                    /\ m \in MoviesOfOrder(last'.res, order_items')
                    /\ \E o \in orders' : o.id = last'.res /\ o.status = "Pending"]_vars

\* C28: create(U) excludes a cart item only if the movie is unavailable, is
\* covered by a Successful payment of U, or is referenced by a Pending order
\* of U: orders and payments of other users never cause an exclusion.
C28_ExclusionOnlyByOwnState ==
    [][\A u \in Users :
          (/\ last'.op = "create" /\ last'.user = u
           /\ \/ last'.code = 200
              \/ last'.detail = "No movies available to create an order.") =>
              \A m \in MoviesInCart(u) :
                  m \notin MoviesOfOrder(last'.res, order_items') =>
                      \/ ~is_available[m]
                      \/ HasPurchased(u, m)
                      \/ InPendingOrder(u, m)]_vars

\* C29: with requests executed one at a time, in every state reachable
\* through create, cancel and webhook events an order is Paid if and only if
\* it has at least one Successful payment, and no operation changes the
\* status of a payment that is Successful or Refunded.
PaidIffSuccessfulPayment ==
    \A o \in orders : o.status = Paid <=> SuccessfulPaymentsOf(o.id) # {}

SettledPaymentsKeepStatus ==
    \A p \in payments :
        p.status \in {Successful, Refunded} =>
            \E q \in payments' : q.id = p.id /\ q.status = p.status

C29_PaidIffSuccessfulPayment ==
    /\ []PaidIffSuccessfulPayment
    /\ [][SettledPaymentsKeepStatus]_vars

\* a cancel has just been refused for a Paid order that has two Successful
\* payments, next to a Canceled order without payments
C29_Witness ==
    /\ last.op = "cancel" /\ last.code = 400
    /\ \E o \in orders :
          /\ o.id = last.arg /\ o.status = Paid
          /\ Cardinality(SuccessfulPaymentsOf(o.id)) = 2
    /\ \E o \in orders : o.status = OrderCanceled /\ SuccessfulPaymentsOf(o.id) = {}

\* C30: for every Payment created by the webhook, the PaymentItems of the
\* payment reference exactly the OrderItems of the payment's order, each
\* exactly once, and Payment.amount equals both the sum of price_at_payment
\* over those PaymentItems and the order's total_amount (prices in cents).
RECURSIVE SumPriceAtPayment(_)
SumPriceAtPayment(items) ==
    IF items = {} THEN 0
    ELSE LET pi == CHOOSE x \in items : TRUE
         IN pi.price_at_payment + SumPriceAtPayment(items \ {pi})

PaymentItemsOf(pid) == {pi \in payment_items : pi.payment_id = pid}

C30_PaymentMirrorsOrder ==
    \A p \in payments :
        LET its == PaymentItemsOf(p.id)
            ois == {oi \in order_items : oi.order_id = p.order_id}
        IN /\ {pi.order_item_id : pi \in its} = {oi.id : oi \in ois}
           /\ Cardinality(its) = Cardinality(ois)
           /\ p.amount = SumPriceAtPayment(its)
           /\ \E o \in orders : o.id = p.order_id /\ p.amount = o.total_amount

\* a payment of two items for an order whose movies have both changed their
\* price since the order was created
C30_Witness ==
    \E p \in payments :
        /\ Cardinality(PaymentItemsOf(p.id)) = 2
        /\ \A oi \in order_items :
              oi.order_id = p.order_id => price[oi.movie_id] # oi.price_at_order
====
